---- MODULE Spec2Model ----
(***************************************************************************)
(* Model of src/webapi/xml_http_request.rs (stdweb).                       *)
(*                                                                         *)
(* The Rust type XMLHttpRequest is a reference to a host (JavaScript)      *)
(* XMLHttpRequest object; every method is one js! call on that object.     *)
(* The state of the program is therefore the state of the host object:     *)
(* its readyState code, its send() flag, its response (status and received *)
(* body), the stored request method and url, and the notifications of the  *)
(* running fetch that the host has queued but not yet processed.  The host *)
(* object behaves as the XMLHttpRequest standard, to which every doc       *)
(* comment of the source links, prescribes for open(), send(), abort() and *)
(* for the readyState, status and responseText getters.                    *)
(***************************************************************************)
EXTENDS Integers, Sequences, FiniteSets, TLC

\* ---------------------------------------------------------------- bounds
MaxQueue == 2      \* notifications queued by the host and not yet processed
MaxBody == 2       \* bytes of response body of one request
MaxSends == 2      \* successful send() calls on the handle
MaxCancels == 2    \* abort() calls on the handle
MaxCode == 6       \* readyState codes that ready_state's match is tried on

\* ---------------------------------------------------------------- inputs
Methods == {"GET", "", "TRACE"}
Urls == {"/a", "", "http://["}
Statuses == {200, 404}
Bytes == {"h", "i"}
Chunks == {<<>>} \cup {<<b>> : b \in Bytes}
Bodies == {"s"}

VARIABLES
  xhr,       \* the host object behind the Reference (line 15)
  net,       \* notifications of fetches, queued in arrival order
  gen,       \* number of fetches begun by send (the current fetch's id)
  netPhase,  \* what the network of the current fetch has emitted so far
  cancels,   \* number of abort() calls forwarded to the host
  wire,      \* body bytes the network of the current fetch has emitted, in order
  last       \* the operation performed last: its name, input, outcome, the object before

vars == <<xhr, net, gen, netPhase, cancels, wire, last>>

\* ------------------------------------------------------- the host object
\* readyState codes of the host object, as matched at lines 56-60
UNSENT == 0
OPENED == 1
HEADERS_RECEIVED == 2
LOADING == 3
DONE == 4

\* the request method and url of an object that was never opened; the empty
\* string is a url that open accepts, so absence is a value of its own
Absent == "(absent)"

\* `new XMLHttpRequest()` (line 46): unsent, no send() flag, response a
\* network error (status 0, no body), no request method or url
NewXhr ==
  [readyState |-> UNSENT, sendFlag |-> FALSE, status |-> 0,
   received |-> <<>>, method |-> Absent, url |-> Absent]

\* the host's status getter: the response's status, 0 for a network error
HostStatus(h) == h.status

\* the host's responseText getter: the empty string unless the state is
\* loading or done; then the text of the received bytes (empty for a
\* network error); always a string
HostResponseText(h) ==
  [type |-> "String",
   val |-> IF h.readyState \in {LOADING, DONE} /\ h.status # 0
           THEN h.received ELSE <<>>]

\* open(method, url, true) of the host: a method that is not a token or a
\* url that does not parse (the empty url parses, relative to the document)
\* throws SyntaxError, a forbidden method throws SecurityError, and either
\* changes nothing; otherwise the running fetch is terminated, the send() flag is unset, the
\* response becomes a network error, the received bytes are emptied and the
\* state becomes opened, whatever it was
IsToken(m) == m # ""
IsForbidden(m) == m \in {"CONNECT", "TRACE", "TRACK"}
UrlParses(u) == u # "http://["

\* a bug: open refuses a handle that is not unsent
HostOpenThrows_OnlyUnsent(h, m, u) ==
  IF h.readyState # UNSENT THEN "InvalidStateError"
  ELSE IF ~IsToken(m) THEN "SyntaxError"
  ELSE IF IsForbidden(m) THEN "SecurityError"
  ELSE IF ~UrlParses(u) THEN "SyntaxError" ELSE "ok"

HostOpenThrows(h, m, u) ==
  IF ~IsToken(m) THEN "SyntaxError"
  ELSE IF IsForbidden(m) THEN "SecurityError"
  ELSE IF ~UrlParses(u) THEN "SyntaxError" ELSE "ok"

\* a bug: the url of the first open is kept by later ones
HostOpen_KeepsUrl(h, m, u) ==
  IF HostOpenThrows(h, m, u) # "ok" THEN h
  ELSE [h EXCEPT !.sendFlag = FALSE, !.method = m,
                 !.url = IF h.url = Absent THEN u ELSE h.url,
                 !.status = 0, !.received = <<>>, !.readyState = OPENED]

HostOpen(h, m, u) ==
  IF HostOpenThrows(h, m, u) # "ok" THEN h
  ELSE [h EXCEPT !.sendFlag = FALSE, !.method = m, !.url = u,
                 !.status = 0, !.received = <<>>, !.readyState = OPENED]

\* send(body) of the host: throws InvalidStateError unless the state is
\* opened and the send() flag is unset; otherwise sets the send() flag and
\* begins the fetch, returning without waiting (async = true, line 90)
\* a bug: send does not look at the send() flag
HostSendThrows_IgnoresFlag(h) ==
  IF h.readyState # OPENED THEN "InvalidStateError" ELSE "ok"

HostSendThrows(h) ==
  IF h.readyState # OPENED \/ h.sendFlag THEN "InvalidStateError" ELSE "ok"

\* a bug: send() moves the request on without waiting for the headers
HostSend_Advances(h) ==
  IF HostSendThrows(h) # "ok" THEN h
  ELSE [h EXCEPT !.sendFlag = TRUE, !.readyState = HEADERS_RECEIVED]

HostSend(h) ==
  IF HostSendThrows(h) # "ok" THEN h ELSE [h EXCEPT !.sendFlag = TRUE]

\* the host's request error steps: state done, send() flag unset, response
\* a network error
\* a bug: a failed request keeps the response it had
RequestErrorSteps_KeepsResponse(h) ==
  [h EXCEPT !.readyState = DONE, !.sendFlag = FALSE]

RequestErrorSteps(h) ==
  [h EXCEPT !.readyState = DONE, !.sendFlag = FALSE, !.status = 0]

\* abort() of the host: the fetch is aborted; a request that is opened
\* with the send() flag set, headers received or loading runs the request
\* error steps; then a request whose state is done is set to unsent with a
\* network error as its response
HostAbortStep2(h) ==
  IF (h.readyState = OPENED /\ h.sendFlag)
       \/ h.readyState \in {HEADERS_RECEIVED, LOADING}
  THEN RequestErrorSteps(h) ELSE h

\* a bug: abort() leaves a done request done
HostAbortStep3_Skipped(h) == h

HostAbortStep3(h) ==
  IF h.readyState = DONE
  THEN [h EXCEPT !.readyState = UNSENT, !.status = 0] ELSE h

\* a bug: abort() keeps the status the response had
HostAbort_KeepsStatus(h) ==
  [HostAbortStep3(HostAbortStep2(h)) EXCEPT !.status = h.status]

HostAbort(h) == HostAbortStep3(HostAbortStep2(h))

\* the host processing one notification of the running fetch; body data
\* that arrives too soon after the data before it is appended without the
\* state change (throttled)
\* a bug: the state changes before the status is there
ProcessResponse_StateOnly(h, s) ==
  [h EXCEPT !.readyState = HEADERS_RECEIVED]

ProcessResponse(h, s) ==
  [h EXCEPT !.status = s, !.readyState = HEADERS_RECEIVED]

ProcessBodyChunk(h, bytes, throttled) ==
  [h EXCEPT !.received = h.received \o bytes,
            !.readyState = IF ~throttled /\ h.readyState = HEADERS_RECEIVED
                           THEN LOADING ELSE h.readyState]

\* a bug: the end of the body takes the request back to opened
HandleResponseEndOfBody_Reopens(h) ==
  [h EXCEPT !.readyState = OPENED, !.sendFlag = FALSE]

HandleResponseEndOfBody(h) ==
  [h EXCEPT !.readyState = DONE, !.sendFlag = FALSE]

Apply(h, n, throttled) ==
  CASE n.kind = "HeadersArrived" -> ProcessResponse(h, n.status)
    [] n.kind = "DataChunk" -> ProcessBodyChunk(h, n.bytes, throttled)
    [] n.kind = "Complete" -> HandleResponseEndOfBody(h)
    [] n.kind = "Failed" -> RequestErrorSteps(h)

\* a queued notification belongs to the running fetch, or to one that
\* open() or abort() has terminated or that has ended
\* a bug: notifications of a terminated fetch reach the next one
Live_AnyFetch(h, g, n) == h.sendFlag

Live(h, g, n) == n.gen = g /\ h.sendFlag

\* ------------------------------------------------------ the Rust methods
\* ready_state (lines 52-63)
\* a bug: the arm of code 3 returns Done
ReadyStateOf_LoadingAsDone(code) ==
  CASE code = 0 -> "Unsent"
    [] code = 1 -> "Opened"
    [] code = 2 -> "HeadersReceived"
    [] code = 3 -> "Done"
    [] code = 4 -> "Done"
    [] OTHER -> "unreachable"

ReadyStateOf(code) ==
  CASE code = 0 -> "Unsent"
    [] code = 1 -> "Opened"
    [] code = 2 -> "HeadersReceived"
    [] code = 3 -> "Loading"
    [] code = 4 -> "Done"
    [] OTHER -> "unreachable"

ready_state == ReadyStateOf(xhr.readyState)

\* response_text (lines 69-76)
None == <<"None">>
Some(x) == <<"Some", x>>

ResponseTextOf(v) ==
  CASE v.type = "Null" -> None
    [] v.type = "String" -> Some(v.val)
    [] OTHER -> <<"unreachable">>

response_text == ResponseTextOf(HostResponseText(xhr))

\* status (lines 81-83): the host's number converted to u16
status == HostStatus(xhr) % 65536

\* what `last` keeps of the object as it was before the operation
Pre(h) ==
  [readyState |-> h.readyState, sendFlag |-> h.sendFlag, status |-> h.status,
   received |-> h.received, method |-> h.method, url |-> h.url]

Did(op, arg, res) == [op |-> op, arg |-> arg, res |-> res, pre |-> Pre(xhr)]

Msg(kind, g) ==
  [kind |-> kind, gen |-> g, status |-> 0, bytes |-> <<>>]

\* bytes of body of fetch g that are queued and not yet processed
RECURSIVE QueuedBytes(_, _)
QueuedBytes(q, g) ==
  IF q = <<>> THEN 0
  ELSE (IF q[1].gen = g THEN Len(q[1].bytes) ELSE 0) + QueuedBytes(Tail(q), g)

Init ==
  /\ xhr = NewXhr
  /\ net = <<>>
  /\ gen = 0
  /\ netPhase = "none"
  /\ cancels = 0
  /\ wire = <<>>
  /\ last = [op |-> "new", arg |-> <<>>, res |-> "ok", pre |-> Pre(NewXhr)]

\* open (lines 88-92)
\* a bug: a rejected open has already terminated the running fetch
open_RejectedCancels(m, u) ==
  /\ xhr' = HostOpen(xhr, m, u)
  /\ netPhase' = "none"
  /\ wire' = IF HostOpenThrows(xhr, m, u) = "ok" THEN <<>> ELSE wire
  /\ last' = Did("open", <<m, u>>, HostOpenThrows(xhr, m, u))
  /\ UNCHANGED <<net, gen, cancels>>

open(m, u) ==
  /\ xhr' = HostOpen(xhr, m, u)
  /\ netPhase' = IF HostOpenThrows(xhr, m, u) = "ok" THEN "none" ELSE netPhase
  /\ wire' = IF HostOpenThrows(xhr, m, u) = "ok" THEN <<>> ELSE wire
  /\ last' = Did("open", <<m, u>>, HostOpenThrows(xhr, m, u))
  /\ UNCHANGED <<net, gen, cancels>>

\* the three send methods (lines 97-119) make the same host call, which
\* `last` records as "send"; with the request methods of this model the
\* host ignores or merely forwards the body
SendCall(body) ==
  /\ HostSendThrows(xhr) = "ok" => gen < MaxSends
  /\ xhr' = HostSend(xhr)
  /\ gen' = IF HostSendThrows(xhr) = "ok" THEN gen + 1 ELSE gen
  /\ netPhase' = IF HostSendThrows(xhr) = "ok" THEN "sent" ELSE netPhase
  /\ wire' = IF HostSendThrows(xhr) = "ok" THEN <<>> ELSE wire
  /\ last' = Did("send", <<>>, HostSendThrows(xhr))
  /\ UNCHANGED <<net, cancels>>

send == SendCall("none")

send_with_string(body) == SendCall(body)

send_with_bytes(body) == SendCall(body)

\* abort (lines 127-131)
abort ==
  /\ cancels < MaxCancels
  /\ cancels' = cancels + 1
  /\ xhr' = HostAbort(xhr)
  /\ netPhase' = "none"
  /\ wire' = <<>>
  /\ last' = Did("abort", <<>>, "ok")
  /\ UNCHANGED <<net, gen>>

\* the network of the running fetch reports progress; the host queues it
NetHeaders(s) ==
  /\ netPhase = "sent"
  /\ Len(net) < MaxQueue
  /\ net' = Append(net, [Msg("HeadersArrived", gen) EXCEPT !.status = s])
  /\ netPhase' = "headers"
  /\ UNCHANGED <<xhr, gen, cancels, wire, last>>

NetChunk(b) ==
  /\ netPhase = "headers"
  /\ Len(net) < MaxQueue
  /\ Len(xhr.received) + QueuedBytes(net, gen) + Len(b) <= MaxBody
  /\ net' = Append(net, [Msg("DataChunk", gen) EXCEPT !.bytes = b])
  /\ wire' = wire \o b
  /\ UNCHANGED <<xhr, gen, netPhase, cancels, last>>

NetComplete ==
  /\ netPhase = "headers"
  /\ Len(net) < MaxQueue
  /\ net' = Append(net, Msg("Complete", gen))
  /\ netPhase' = "closed"
  /\ UNCHANGED <<xhr, gen, cancels, wire, last>>

NetFailed ==
  /\ netPhase \in {"sent", "headers"}
  /\ Len(net) < MaxQueue
  /\ net' = Append(net, Msg("Failed", gen))
  /\ netPhase' = "closed"
  /\ UNCHANGED <<xhr, gen, cancels, wire, last>>

\* the host processes the oldest queued notification: applied to the object
\* if its fetch is still running, dropped otherwise
\* a bug: the host takes the newest queued notification first
Deliver_NewestFirst(throttled) ==
  /\ net # <<>>
  /\ net' = SubSeq(net, 1, Len(net) - 1)
  /\ IF Live(xhr, gen, net[Len(net)])
     THEN /\ xhr' = Apply(xhr, net[Len(net)], throttled)
          /\ last' = Did(net[Len(net)].kind, net[Len(net)], "applied")
     ELSE /\ xhr' = xhr
          /\ last' = Did(net[Len(net)].kind, net[Len(net)], "dropped")
  /\ UNCHANGED <<gen, netPhase, cancels, wire>>

Deliver(throttled) ==
  /\ net # <<>>
  /\ net' = Tail(net)
  /\ IF Live(xhr, gen, net[1])
     THEN /\ xhr' = Apply(xhr, net[1], throttled)
          /\ last' = Did(net[1].kind, net[1], "applied")
     ELSE /\ xhr' = xhr
          /\ last' = Did(net[1].kind, net[1], "dropped")
  /\ UNCHANGED <<gen, netPhase, cancels, wire>>

Next ==
  \/ \E m \in Methods, u \in Urls : open(m, u)
  \/ send
  \/ \E b \in Bodies : send_with_string(b)
  \/ \E b \in Bodies : send_with_bytes(b)
  \/ abort
  \/ \E s \in Statuses : NetHeaders(s)
  \/ \E b \in Chunks : NetChunk(b)
  \/ NetComplete
  \/ NetFailed
  \/ \E t \in BOOLEAN : Deliver(t)

Spec == Init /\ [][Next]_vars

\* the host's event loop runs every task it has queued: a notification that
\* is queued is processed in the end; the caller's calls and the network are
\* under no obligation
FairSpec == Spec /\ WF_vars(\E throttled \in BOOLEAN : Deliver(throttled))

\* ------------------------------------------------------------ the claims
\* Every call and every processed notification records itself in `last`
\* together with the object as it was before; the network's steps change
\* neither.  A predicate on (last.pre, xhr) therefore states what the
\* operation named by last.op did.
SendOps == {"send"}
Kinds == {"HeadersArrived", "DataChunk", "Complete", "Failed"}

\* the object was a request sent and not finished
Running(p) ==
  (p.readyState = OPENED /\ p.sendFlag) \/ p.readyState \in {HEADERS_RECEIVED, LOADING}

\* the last operation left state, status and response buffer as they were
Untouched == Pre(xhr) = last.pre

\* C1, for a request that has been sent: after abort() on a handle that is
\* not Done, ready_state() is Done at once, and no notification processed
\* after an abort() changes the state, the status or the response buffer.
C1_AbortIsFinal ==
  /\ last.op = "abort" /\ Running(last.pre) => ready_state = "Done"
  /\ cancels > 0 /\ last.op \in Kinds => Untouched

\* C2 as stated, for every operation but abort (whose jump C1 is about):
\* ready_state() never moves backwards in the order
\* Unsent < Opened < HeadersReceived < Loading < Done.
C2_NeverBackwards ==
  last.op # "abort" => xhr.readyState >= last.pre.readyState

\* C2 amended: ready_state() moves backwards only at a successful open(),
\* which leaves the handle Opened whatever state it was in, and at abort()
\* on a sent or finished request, which leaves it Unsent; every other
\* operation leaves the state where it was or further in the order.
C2_BackwardsOnlyByOpenOrAbort ==
  \/ xhr.readyState >= last.pre.readyState
  \/ last.op = "open" /\ last.res = "ok" /\ ready_state = "Opened"
  \/ /\ last.op = "abort"
     /\ Running(last.pre) \/ last.pre.readyState = DONE
     /\ ready_state = "Unsent"

\* a handle opened again after its request was loading, on a handle that
\* had been aborted before
C2_Witness ==
  /\ last.op = "open" /\ last.res = "ok"
  /\ last.pre.readyState = LOADING
  /\ ready_state = "Opened"
  /\ cancels > 0

\* C3 as stated, on the status: abort() after send and before headers
\* ends with status 0, and abort() after HeadersArrived{s} ends with
\* status s unchanged, not reset to 0.
C3_AbortKeepsStatus ==
  last.op = "abort" =>
    /\ last.pre.readyState = OPENED /\ last.pre.sendFlag => status = 0
    /\ last.pre.readyState \in {HEADERS_RECEIVED, LOADING} =>
         status = last.pre.status

\* C3 amended: abort() on a sent request ends with status 0 whether or not
\* headers had been received (a received status s is reset, not kept), with
\* ready_state() Unsent and response_text() the empty string, and a
\* notification of the aborted request processed afterwards is dropped and
\* accumulates no body.
C3_AbortResetsStatus ==
  /\ last.op = "abort" /\ Running(last.pre) =>
       ready_state = "Unsent" /\ status = 0 /\ response_text = Some(<<>>)
  /\ last.op \in Kinds /\ ready_state = "Unsent" =>
       last.res = "dropped" /\ Untouched /\ response_text = Some(<<>>)

\* abort() was called while the request was loading with status 404 and
\* body received, with another notification of it still queued
C3_Witness ==
  /\ last.op = "abort"
  /\ last.pre.readyState = LOADING /\ last.pre.status = 404
  /\ last.pre.received # <<>>
  /\ net # <<>> /\ net[1].gen = gen
  /\ status = 0

\* C4 as stated: abort() twice in a row leaves the same state as once, and
\* abort() on a handle that is Done is a no-op: state, status and response
\* stay as they were.
C4_AbortOnDoneIsNoOp ==
  /\ HostAbort(HostAbort(xhr)) = HostAbort(xhr)
  /\ last.op = "abort" /\ last.pre.readyState = DONE =>
       /\ status = last.pre.status
       /\ xhr.received = last.pre.received
       /\ response_text = Some(last.pre.received)

\* C4 amended: abort() twice in a row leaves the same ready_state, status
\* and response as once (the state abort() leaves is one abort() does not
\* change), although every call is forwarded to the host, the second one
\* too; abort() on a handle that is Done is not a no-op: it leaves the
\* handle Unsent with status 0 and an empty response text.
C4_AbortTwiceAsOnce ==
  /\ HostAbort(HostAbort(xhr)) = HostAbort(xhr)
  /\ last.op = "abort" => HostAbort(xhr) = xhr
  /\ last.op = "abort" /\ last.pre.readyState = DONE =>
       ready_state = "Unsent" /\ status = 0 /\ response_text = Some(<<>>)
  /\ last.op = "abort" /\ last.pre.readyState = UNSENT /\ gen > 0 => cancels >= 2

\* abort() called on a handle that a previous abort() had left Unsent
C4_Witness ==
  /\ last.op = "abort"
  /\ last.pre.readyState = UNSENT /\ gen > 0
  /\ Untouched
  /\ cancels = 2
\* C5 as stated: open on a handle that is not Unsent always fails, and
\* send on a handle that is Unsent always fails.
C5_SecondOpenFails ==
  /\ last.op = "open" /\ last.pre.readyState # UNSENT => last.res # "ok"
  /\ last.op \in SendOps /\ last.pre.readyState = UNSENT => last.res # "ok"

\* C5 amended: whether open succeeds does not depend on the state of the
\* handle: with a method that is a token and not forbidden and a url that
\* parses it succeeds in every state, a second open included, and leaves
\* the handle Opened and not sent, with status 0 and an empty response;
\* otherwise it fails the same way in every state and changes nothing.  send on a handle that is Unsent always fails, with the
\* host's InvalidStateError, and changes nothing.
C5_OpenSucceedsInAnyState ==
  /\ last.op = "open" =>
       /\ last.res = "ok" <=>
            last.arg[1] = "GET" /\ last.arg[2] \in {"/a", ""}
       /\ last.res \in {"ok", "SyntaxError", "SecurityError"}
       /\ last.res = "ok" =>
            /\ ready_state = "Opened" /\ ~xhr.sendFlag
            /\ status = 0 /\ response_text = Some(<<>>)
       /\ last.res # "ok" => Untouched
  /\ last.op \in SendOps /\ last.pre.readyState = UNSENT =>
       last.res = "InvalidStateError" /\ Untouched

\* a second open, on a handle that is Done with a response, succeeded
C5_Witness ==
  /\ last.op = "open" /\ last.res = "ok"
  /\ last.pre.readyState = DONE /\ last.pre.status = 200
  /\ ready_state = "Opened"

\* C6 as stated: once send has succeeded on a handle, every later send
\* fails, so the host begins at most one fetch per handle.
C6_SecondSendFails ==
  /\ last.op \in SendOps /\ last.res = "ok" => gen = 1
  /\ gen <= 1

\* C6 amended: send succeeds exactly when the handle is Opened and no send
\* has succeeded since the last successful open; a second send fails with
\* InvalidStateError and changes nothing when the handle is still Opened
\* with the request sent, HeadersReceived, Loading, Done or Unsent, but
\* succeeds after another open; the host begins at most one fetch per
\* successful open: only open makes a handle one that send accepts.
Sendable(p) == p.readyState = OPENED /\ ~p.sendFlag

C6_OneSendPerOpen ==
  /\ last.op \in SendOps =>
       /\ last.res = "ok" <=> Sendable(last.pre)
       /\ last.res = "ok" => ready_state = "Opened" /\ xhr.sendFlag
       /\ last.res # "ok" => last.res = "InvalidStateError" /\ Untouched
  /\ Sendable(xhr) =>
       \/ last.op = "open" /\ last.res = "ok"
       \/ Sendable(last.pre) /\ Untouched
  /\ gen > 0 => xhr.method # Absent

\* a second send succeeded, on a handle opened again
C6_Witness ==
  /\ last.op \in SendOps /\ last.res = "ok"
  /\ gen = 2
\* the last operation was the host applying a notification of this kind
WasApplied(kind) == last.op = kind /\ last.res = "applied"

\* C7: response_text() is None in every state before the first DataChunk
\* is applied (before send, after HeadersArrived); each applied DataChunk
\* makes it Some of the text before extended by the chunk.
C7_NoneUntilData ==
  /\ ready_state \in {"Unsent", "Opened"} => response_text = None
  /\ WasApplied("HeadersArrived") => response_text = None
  /\ WasApplied("DataChunk") =>
       response_text = Some(last.pre.received \o last.arg.bytes)

\* C8 as stated, reading the absent status as the 0 that status() returns:
\* on a handle never aborted status() is absent in Unsent and Opened and is
\* the status of the HeadersArrived notification in HeadersReceived and in
\* every later state.
C8_StatusFromHeadersOn ==
  cancels = 0 =>
    /\ ready_state \in {"Unsent", "Opened"} => status = 0
    /\ ready_state \in {"HeadersReceived", "Loading"} => status \in Statuses
    /\ last.op \in Kinds /\ last.pre.readyState \in {HEADERS_RECEIVED, LOADING} =>
         status = last.pre.status

\* C8 amended: status() is 0 in Unsent and Opened; applying HeadersArrived
\* sets state and status together, to HeadersReceived and the status the
\* notification carries; the status stays that through Loading and in Done
\* reached by Complete; in Done reached by Failed it is 0 again.
C8_StatusWithState ==
  /\ ready_state \in {"Unsent", "Opened"} => status = 0
  /\ ready_state \in {"HeadersReceived", "Loading"} => status \in Statuses
  /\ WasApplied("HeadersArrived") =>
       ready_state = "HeadersReceived" /\ status = last.arg.status
  /\ WasApplied("DataChunk") => status = last.pre.status
  /\ WasApplied("Complete") =>
       ready_state = "Done" /\ status = last.pre.status /\ status \in Statuses
  /\ WasApplied("Failed") => ready_state = "Done" /\ status = 0

\* a request that had status 200 failed, on a handle never aborted
C8_Witness ==
  /\ WasApplied("Failed")
  /\ last.pre.status = 200
  /\ cancels = 0
  /\ ready_state = "Done" /\ status = 0

\* C9 as stated, for every operation but abort (whose jump C1 is about):
\* the only transitions are Unsent->Opened, Opened->HeadersReceived,
\* HeadersReceived->Loading, Loading->Done and HeadersReceived->Done.
C9_OnlyListedTransitions ==
  last.op # "abort" =>
    \/ xhr.readyState = last.pre.readyState
    \/ <<last.pre.readyState, xhr.readyState>> \in
         {<<UNSENT, OPENED>>, <<OPENED, HEADERS_RECEIVED>>,
          <<HEADERS_RECEIVED, LOADING>>, <<LOADING, DONE>>,
          <<HEADERS_RECEIVED, DONE>>}

\* C9 amended: the transitions a handle performs are: any state ->Opened
\* by a successful open; Opened->HeadersReceived by HeadersArrived;
\* HeadersReceived->Loading by DataChunk; HeadersReceived->Done and
\* Loading->Done by Complete; Opened, HeadersReceived or Loading ->Done by
\* Failed; a sent or finished request ->Unsent by abort.  A notification is
\* applied only in a state it fits, and one whose request has been
\* terminated is dropped without any error.
C9_TransitionsByCause ==
  /\ \/ xhr.readyState = last.pre.readyState
     \/ last.op = "open" /\ last.res = "ok" /\ xhr.readyState = OPENED
     \/ WasApplied("HeadersArrived") /\ xhr.readyState = HEADERS_RECEIVED
     \/ WasApplied("DataChunk") /\ xhr.readyState = LOADING
     \/ WasApplied("Complete") /\ xhr.readyState = DONE
     \/ WasApplied("Failed") /\ xhr.readyState = DONE
     \/ /\ last.op = "abort"
        /\ Running(last.pre) \/ last.pre.readyState = DONE
        /\ xhr.readyState = UNSENT
  /\ WasApplied("HeadersArrived") => last.pre.readyState = OPENED /\ last.pre.sendFlag
  /\ WasApplied("DataChunk") => last.pre.readyState \in {HEADERS_RECEIVED, LOADING}
  /\ WasApplied("Complete") => last.pre.readyState \in {HEADERS_RECEIVED, LOADING}
  /\ WasApplied("Failed") => Running(last.pre)
  /\ last.op \in Kinds /\ last.res = "dropped" => Untouched

\* a request failed before its headers: Opened to Done without abort
C9_Witness ==
  /\ WasApplied("Failed")
  /\ last.pre.readyState = OPENED
  /\ ready_state = "Done"

C11_CodesMapToStates ==
  /\ ReadyStateOf(0) = "Unsent"
  /\ ReadyStateOf(1) = "Opened"
  /\ ReadyStateOf(2) = "HeadersReceived"
  /\ ReadyStateOf(3) = "Loading"
  /\ ReadyStateOf(4) = "Done"
  /\ \A c, d \in 0..4 : ReadyStateOf(c) = ReadyStateOf(d) => c = d
  /\ \A c \in 5..MaxCode : ReadyStateOf(c) = "unreachable"
  /\ xhr.readyState \in 0..4
  /\ ready_state # "unreachable"
  /\ ready_state = <<"Unsent", "Opened", "HeadersReceived", "Loading", "Done">>[xhr.readyState + 1]

\* a handle whose code is 3 after body data was applied reads Loading
C11_Witness ==
  /\ WasApplied("DataChunk")
  /\ xhr.readyState = 3
  /\ ready_state = "Loading"
\* C12: as the doc comment of abort says, when a request that has been
\* sent (Opened, HeadersReceived or Loading, with whatever status) is
\* aborted, ready_state() is Done and status() is 0 after the call.
C12_AbortedIsDoneWithStatus0 ==
  last.op = "abort" /\ last.pre.sendFlag =>
    ready_state = "Done" /\ status = 0
\* body bytes of fetch g that are queued, in the order of the queue
RECURSIVE QueuedText(_, _)
QueuedText(q, g) ==
  IF q = <<>> THEN <<>>
  ELSE (IF q[1].gen = g THEN q[1].bytes ELSE <<>>) \o QueuedText(Tail(q), g)

SentOpened(p) == p.readyState = OPENED /\ p.sendFlag

\* C14 as claimed, its last part: a sent request stays Opened until a
\* HeadersArrived notification is applied or abort is called.
C14_OpenedUntilHeadersOrAbort ==
  SentOpened(last.pre) /\ ready_state # "Opened" =>
    WasApplied("HeadersArrived") \/ last.op = "abort"

\* C14: a successful send changes nothing of the handle but its send flag:
\* ready_state() is still Opened, status() is 0 and response_text() is
\* Some of the empty text; the sent request leaves Opened only when a
\* HeadersArrived or a Failed notification is applied or at abort, and is
\* replaced by an unsent one, Opened too, only by a successful open.
C14_SendKeepsOpened ==
  /\ last.op \in SendOps /\ last.res = "ok" =>
       /\ ready_state = "Opened" /\ status = 0 /\ response_text = Some(<<>>)
       /\ Pre(xhr) = [last.pre EXCEPT !.sendFlag = TRUE]
  /\ SentOpened(last.pre) /\ ready_state # "Opened" =>
       \/ WasApplied("HeadersArrived")
       \/ WasApplied("Failed")
       \/ last.op = "abort"
  /\ SentOpened(last.pre) /\ ready_state = "Opened" /\ ~xhr.sendFlag =>
       last.op = "open" /\ last.res = "ok"

\* send has returned, the network has answered, and the handle is unmoved
C14_Witness ==
  /\ last.op \in SendOps /\ last.res = "ok"
  /\ net # <<>> /\ net[Len(net)].gen = gen
  /\ ready_state = "Opened"
\* C15 as claimed, its first part: open on an Unsent handle with an empty
\* method or an empty url fails and leaves the handle Unsent, with no
\* method and no url.
C15_EmptyMethodOrUrlFails ==
  last.op = "open" /\ last.pre.readyState = UNSENT
    /\ (last.arg[1] = "" \/ last.arg[2] = "") =>
      /\ last.res # "ok" /\ ready_state = "Unsent"
      /\ xhr.method = last.pre.method /\ xhr.url = last.pre.url

\* C15: open with an empty method fails with SyntaxError and changes
\* nothing; open with an empty url and a valid method succeeds; every
\* successful open stores exactly its method and url and leaves the handle
\* Opened, so method and url are absent until the first successful open and
\* change at, and only at, a successful open, a later one included.
C15_OpenStoresMethodAndUrl ==
  /\ last.op = "open" /\ last.arg[1] = "" =>
       last.res = "SyntaxError" /\ Untouched
  /\ last.op = "open" /\ last.arg = <<"GET", "">> => last.res = "ok"
  /\ last.op = "open" /\ last.res = "ok" =>
       /\ xhr.method = last.arg[1] /\ xhr.url = last.arg[2]
       /\ ready_state = "Opened"
  /\ (xhr.method # last.pre.method \/ xhr.url # last.pre.url) =>
       last.op = "open" /\ last.res = "ok"
  /\ ready_state = "Unsent" /\ cancels = 0 =>
       xhr.method = Absent /\ xhr.url = Absent
  /\ ready_state # "Unsent" => xhr.method # Absent /\ xhr.url # Absent

\* a later open, with the empty url, replaced the url of an earlier one
C15_Witness ==
  /\ last.op = "open" /\ last.res = "ok"
  /\ last.pre.url = "/a" /\ last.arg[2] = ""
  /\ xhr.url = ""
\* a call of open or of one of the send methods that the host rejects (the
\* first two conjuncts follow from the third, which `last` makes cheap to
\* exclude for most steps)
RejectedOpen ==
  /\ last'.op = "open"
  /\ last'.res # "ok"
  /\ \E m \in Methods, u \in Urls :
       HostOpenThrows(xhr, m, u) # "ok" /\ open(m, u)

RejectedSend ==
  /\ last'.op \in SendOps
  /\ last'.res # "ok"
  /\ HostSendThrows(xhr) # "ok"
  /\ \E body \in {"none"} \cup Bodies : SendCall(body)

\* C16: a rejected open or send is atomic: the object (state, method, url,
\* status, response buffer, send flag) is as it was, no fetch is begun and
\* none is cancelled, and the notifications queued stay queued.
C16_RejectedIsAtomic ==
  [][RejectedOpen \/ RejectedSend =>
       UNCHANGED <<xhr, net, gen, netPhase, cancels, wire>>]_vars

\* a second send was rejected while the response was arriving
C16_Witness ==
  /\ last.op \in SendOps /\ last.res = "InvalidStateError"
  /\ last.pre.readyState = LOADING /\ last.pre.received # <<>>
  /\ netPhase = "headers" /\ net # <<>>
  /\ Untouched
\* C17: whenever response_text() is Some, the handle is Loading or Done; the
\* body is never present in Unsent, Opened or HeadersReceived.
C17_BodyOnlyFromLoading ==
  response_text # None => ready_state \in {"Loading", "Done"}

\* the terminal notification of the running request is queued
TerminalPending ==
  /\ xhr.sendFlag
  /\ \E i \in 1..Len(net) :
       net[i].gen = gen /\ net[i].kind \in {"Complete", "Failed"}

\* C18: under fair processing of the queue, a sent handle whose terminal
\* notification has been emitted reaches Done unless the caller first
\* aborts or re-opens it, and a sent handle that the caller aborts reaches
\* Done unless the caller re-opens it.
C18_SentReachesDone ==
  /\ TerminalPending ~>
       \/ ready_state = "Done"
       \/ last.op = "abort"
       \/ last.op = "open" /\ last.res = "ok"
  /\ (last.op = "abort" /\ Running(last.pre)) ~>
       \/ ready_state = "Done"
       \/ last.op = "open" /\ last.res = "ok"
====
